---- MODULE Spec2Model ----
(***************************************************************************)
(* Movie recommender (src/app.py): the cached load of the two pickled      *)
(* artifacts, main's validation and widgets, recommend's ranking loop and  *)
(* fetch_poster's HTTP lookup, as one state machine.                       *)
(*                                                                         *)
(* Conventions.  Row indices are Python's (0-based); TLA+ sequences are    *)
(* 1-based, so row i of the frame is rows[i + 1].  The frame carries the   *)
(* default RangeIndex, so the label movie_matches.index[0] is the position *)
(* of the first matching row.  Scores are naturals (only their order is    *)
(* read by the sort); NaN scores are outside the model.  A URL is a record *)
(* of host prefix and remainder, so concatenation stays visible.           *)
(***************************************************************************)
EXTENDS Integers, Sequences, FiniteSets, TLC

VARIABLES
    disk,        \* the two files on local storage (read-only)
    tmdb,        \* the metadata service: the response it gives for each id
    cache,       \* st.cache_data's store for load_data: <<>> or <<result>>
    reads,       \* how many times load_data's body ran (storage was read)
    hit,         \* some load_data call was served from the cache
    pc,          \* position of the session's script run
    movies,      \* main's movies / recommend's movies_df
    similarity,  \* main's similarity / recommend's similarity_matrix
    selected_movie, \* the selectbox's value
    clicked,     \* the run was started by the button
    offered,     \* the title selector was rendered in this run
    error,       \* the last st.error shown in this run ("none" when none)
    movie,       \* recommend's argument
    distances,   \* recommend's sorted (index, score) pairs
    k,           \* 0-based position of the loop in distances[1:6]
    recommended_movie_names,
    recommended_movie_posters,
    movie_id,    \* fetch_poster's argument
    result,      \* recommend's return value (read once pc is past "call")
    raised,      \* recommend's except clause ran in this call
    lookups,     \* recommend calls in this run
    fetchLog     \* the fetch_poster calls of this run: [row, id, url]

vars == <<disk, tmdb, cache, reads, hit, pc, movies, similarity,
          selected_movie, clicked, offered, error, movie, distances, k,
          recommended_movie_names, recommended_movie_posters, movie_id,
          result, raised, lookups, fetchLog>>

recVars == <<movie, distances, k, recommended_movie_names,
             recommended_movie_posters, movie_id, result, raised, fetchLog>>

-----------------------------------------------------------------------------
(* Bounds of the model *)

MaxRows == 7      \* rows of the movie table
MaxScore == 2     \* similarity scores are 0..MaxScore
MaxFree == 2      \* freely chosen leading entries of a matrix row
MaxReads == 2     \* reruns stop once storage was read this often (the
                  \* cache keeps reads at 1; the bound only ends runs of a
                  \* load that re-reads)

(* Program constants *)

TopK == 5         \* distances[1:6]
NaN == 0 - 1      \* a missing identifier (pd.isna)

Min(a, b) == IF a < b THEN a ELSE b

-----------------------------------------------------------------------------
(* URLs and HTTP responses *)

Url(host, rest) == [host |-> host, rest |-> rest]
PlaceholderHost == "https://via.placeholder.com/500x750/"
ImageHost == "https://image.tmdb.org/t/p/w500"
NoPoster == Url(PlaceholderHost, "cccccc/666666?text=No+Poster")
TimeoutUrl == Url(PlaceholderHost, "ffcccc/cc0000?text=Timeout")
ErrorUrl == Url(PlaceholderHost, "ffcccc/cc0000?text=Error")
NoImage == Url(PlaceholderHost, "cccccc/666666?text=No+Image")
Placeholders == {NoPoster, TimeoutUrl, ErrorUrl, NoImage}

(* What requests.get and response.json can do.  exc is the exception      *)
(* requests.get raises ("none": it returns); json is the body: "invalid"   *)
(* (json() raises: a RequestException subclass in requests >= 2.27, a     *)
(* plain ValueError before), "no_field", or "field" with poster_path       *)
(* ("" stands for null and for the empty string, both falsy).              *)
Resp(exc, status, json, jsonexc, path) ==
    [exc |-> exc, status |-> status, json |-> json, jsonexc |-> jsonexc,
     poster_path |-> path]
Responses ==
    << Resp("Timeout", 0, "none", "none", ""),
       Resp("RequestException", 0, "none", "none", ""),
       Resp("none", 404, "no_field", "none", ""),
       Resp("none", 200, "invalid", "RequestException", ""),
       Resp("none", 200, "invalid", "ValueError", ""),
       Resp("none", 200, "no_field", "none", ""),
       Resp("none", 200, "field", "none", ""),
       Resp("none", 200, "field", "none", "/a.jpg"),
       Resp("none", 500, "field", "none", "/a.jpg") >>

(* Mutant of fetch_poster: the status code is not checked. *)
fetch_poster_any_status(id, resp) ==
    IF id = NaN \/ id = 0 THEN NoPoster
    ELSE IF resp.exc = "Timeout" THEN TimeoutUrl
    ELSE IF resp.exc = "RequestException" THEN ErrorUrl
    ELSE IF resp.json = "invalid"
         THEN IF resp.jsonexc = "RequestException" THEN ErrorUrl ELSE NoImage
         ELSE IF resp.json = "field" /\ resp.poster_path # ""
              THEN Url(ImageHost, resp.poster_path)
              ELSE NoPoster

(* Lines 29-51: the URL fetch_poster returns when the service answers resp *)
fetch_poster(id, resp) ==
    IF id = NaN \/ id = 0 THEN NoPoster
    ELSE IF resp.exc = "Timeout" THEN TimeoutUrl
    ELSE IF resp.exc = "RequestException" THEN ErrorUrl
    ELSE IF resp.status = 200
         THEN IF resp.json = "invalid"
              THEN IF resp.jsonexc = "RequestException" THEN ErrorUrl
                   ELSE NoImage
              ELSE IF resp.json = "field" /\ resp.poster_path # ""
                   THEN Url(ImageHost, resp.poster_path)
                   ELSE NoPoster
         ELSE NoPoster

-----------------------------------------------------------------------------
(* The artifacts the model draws from *)

TitleNames == <<"A", "B", "C", "D", "E", "F", "G", "H", "I">>
Absent == "Z"
Variants == {"plain", "dup", "blank", "noid"}

Rows(n, v) ==
    [r \in 1..n |->
        [title |-> IF v = "dup" /\ r = n /\ n > 1 THEN TitleNames[1]
                   ELSE IF v = "blank" /\ r = 1 THEN ""
                   ELSE TitleNames[r],
         id |-> IF v = "noid" /\ r = 1 THEN 0
                ELSE IF v = "noid" /\ r = 2 THEN NaN
                ELSE r]]

(* A loaded object is a record; none marks Python's None. *)
Frame(cols, rows) == [none |-> FALSE, cols |-> cols, rows |-> rows]
NoneFrame == [none |-> TRUE, cols |-> {}, rows |-> <<>>]
Array(m) == [none |-> FALSE, m |-> m]
NoneArray == [none |-> TRUE, m |-> <<>>]
AllColumns == {"title", "id"}

(* An m x m matrix whose row i is the base vector rotated to start at i:   *)
(* base[1] is every row's self-similarity, entries past the base are 0.    *)
Matrix(m, base) ==
    [i \in 1..m |->
        [j \in 1..m |->
            LET d == ((j - i) % m) + 1
            IN  IF d <= Len(base) THEN base[d] ELSE 0]]

Bases == [1..MaxFree -> 0..MaxScore]
Dims(n) == {n - 1, n, n + 1}

(* The service answers a request by the id asked for.  One call of        *)
(* recommend asks for each id at most once, so this fixes one response per *)
(* request; the behaviours tried give every id every response.             *)
Service(s) ==
    [id \in 1..(MaxRows + 1) |-> Responses[((id + s) % Len(Responses)) + 1]]
Services == {Service(s) : s \in 0..(Len(Responses) - 1)}

(* A file is missing, unreadable by pickle, or holds a pickled object. *)
File(kind, obj) == [kind |-> kind, obj |-> obj]
MovieFiles(colsets) ==
    {File("missing", NoneFrame), File("corrupt", NoneFrame),
     File("ok", NoneFrame)}
    \cup {File("ok", Frame(c, Rows(n, v))) :
            c \in colsets, n \in 1..MaxRows, v \in Variants}
SimilarityFiles(n) ==
    {File("ok", Array(Matrix(m, b))) : m \in Dims(n), b \in Bases}
BadSimilarityFiles ==
    {File("missing", NoneArray), File("corrupt", NoneArray),
     File("ok", NoneArray)}

-----------------------------------------------------------------------------
(* load_data, lines 15-27 *)

(* The body of load_data: the result it returns, or the error it shows     *)
(* before st.stop().                                                       *)
load_data(d) ==
    IF d.movie_list.kind = "missing" \/
       (d.movie_list.kind = "ok" /\ d.similarity.kind = "missing")
    THEN [ok |-> FALSE, error |-> "FileNotFound",
          movies |-> NoneFrame, similarity |-> NoneArray]
    ELSE IF d.movie_list.kind = "corrupt" \/ d.similarity.kind = "corrupt"
    THEN [ok |-> FALSE, error |-> "LoadError",
          movies |-> NoneFrame, similarity |-> NoneArray]
    ELSE [ok |-> TRUE, error |-> "none",
          movies |-> d.movie_list.obj, similarity |-> d.similarity.obj]

(* Mutant of CacheStore: the result is not kept. *)
CacheStoreNothing(c, value) == c

(* st.cache_data: a returned value is stored, and served to later calls. *)
CacheStore(c, value) == <<value>>
CacheHit(c) == c # <<>>

LoadData ==
    /\ pc = "run"
    /\ IF CacheHit(cache)
       THEN /\ movies' = cache[1].movies
            /\ similarity' = cache[1].similarity
            /\ hit' = TRUE
            /\ pc' = "check"
            /\ UNCHANGED <<cache, reads, error>>
       ELSE LET r == load_data(disk)
            IN  /\ reads' = reads + 1
                /\ hit' = hit
                /\ IF r.ok
                   THEN /\ cache' = CacheStore(cache, r)
                        /\ movies' = r.movies
                        /\ similarity' = r.similarity
                        /\ pc' = "check"
                        /\ error' = error
                   ELSE /\ error' = r.error
                        /\ pc' = "stopped"
                        /\ UNCHANGED <<cache, movies, similarity>>
    /\ UNCHANGED <<disk, tmdb, selected_movie, clicked, offered, lookups>>
    /\ UNCHANGED recVars

-----------------------------------------------------------------------------
(* main, lines 92-116 *)

(* Rank of a title in Python's string order: "" sorts first, then A, B, ... *)
TitleRank(t) ==
    IF t = "" THEN 0
    ELSE CHOOSE r \in 1..Len(TitleNames) : TitleNames[r] = t

TitleSet(frame) == {frame.rows[r].title : r \in 1..Len(frame.rows)}

(* sorted(movies['title'].dropna().unique()) *)
RECURSIVE SortedTitles(_)
SortedTitles(ts) ==
    IF ts = {} THEN <<>>
    ELSE LET t == CHOOSE x \in ts : \A y \in ts : TitleRank(x) <= TitleRank(y)
         IN  <<t>> \o SortedTitles(ts \ {t})

(* Mutant of DataError: the id column is not checked. *)
DataErrorNoIdCheck(mv, sim) ==
    IF mv.none \/ sim.none THEN "LoadNone"
    ELSE IF "title" \notin mv.cols THEN "NoTitle"
    ELSE IF Len(SortedTitles(TitleSet(mv))) = 0 THEN "NoMovies"
    ELSE "none"

(* The checks of lines 92-110: the error shown before main returns. *)
DataError(mv, sim) ==
    IF mv.none \/ sim.none THEN "LoadNone"
    ELSE IF "title" \notin mv.cols THEN "NoTitle"
    ELSE IF "id" \notin mv.cols THEN "NoId"
    ELSE IF Len(SortedTitles(TitleSet(mv))) = 0 THEN "NoMovies"
    ELSE "none"

CheckData ==
    /\ pc = "check"
    /\ LET e == DataError(movies, similarity)
           movie_list == SortedTitles(TitleSet(movies))
       IN  IF e # "none"
           THEN /\ error' = e
                /\ pc' = "stopped"
                /\ UNCHANGED <<offered, selected_movie>>
           ELSE /\ offered' = TRUE
                /\ selected_movie' =
                      IF selected_movie \in TitleSet(movies)
                      THEN selected_movie ELSE movie_list[1]
                /\ pc' = "button"
                /\ error' = error
    /\ UNCHANGED <<disk, tmdb, cache, reads, hit, movies, similarity,
                   clicked, lookups>>
    /\ UNCHANGED recVars

-----------------------------------------------------------------------------
(* main, lines 122-125: the button *)

Button ==
    /\ pc = "button"
    /\ IF clicked /\ selected_movie # ""
       THEN /\ movie' = selected_movie
            /\ lookups' = lookups + 1
            /\ pc' = "call"
       ELSE /\ pc' = "idle"
            /\ UNCHANGED <<movie, lookups>>
    /\ UNCHANGED <<disk, tmdb, cache, reads, hit, movies, similarity,
                   selected_movie, clicked, offered, error, distances, k,
                   recommended_movie_names, recommended_movie_posters,
                   movie_id, result, raised, fetchLog>>

-----------------------------------------------------------------------------
(* recommend, lines 53-81 *)

(* list(enumerate(row)): pairs <<index, score>>, index from 0 *)
Enumerate(row) == [j \in 1..Len(row) |-> <<j - 1, row[j]>>]

(* sorted(..., reverse=True, key=lambda x: x[1]): descending by score and  *)
(* stable, so equal scores keep their original order.                      *)
RECURSIVE InsertDesc(_, _)
InsertDesc(s, x) ==
    IF s = <<>> THEN <<x>>
    ELSE IF Head(s)[2] >= x[2] THEN <<Head(s)>> \o InsertDesc(Tail(s), x)
    ELSE <<x>> \o s

RECURSIVE SortInto(_, _)
SortInto(acc, rest) ==
    IF rest = <<>> THEN acc
    ELSE SortInto(InsertDesc(acc, Head(rest)), Tail(rest))

SortedDesc(pairs) == SortInto(<<>>, pairs)

(* Mutant of TopSlice: the first entry is not skipped (distances[:6]). *)
TopSliceFromZero(d) == SubSeq(d, 1, Min(TopK + 1, Len(d)))

(* distances[1:6] *)
TopSlice(d) == SubSeq(d, 2, Min(TopK + 1, Len(d)))

(* Mutant of Matches: a title that matches no row falls back to row 0. *)
MatchesOrFirst(frame, title) ==
    IF \E r \in 1..Len(frame.rows) : frame.rows[r].title = title
    THEN {r \in 1..Len(frame.rows) : frame.rows[r].title = title}
    ELSE {1}

(* movies_df[movies_df['title'] == movie]: the matching positions (1-based) *)
Matches(frame, title) ==
    {r \in 1..Len(frame.rows) : frame.rows[r].title = title}

(* movie_matches.index[0], the first match, 0-based *)
FirstIndex(frame, title) ==
    (CHOOSE r \in Matches(frame, title) :
        \A q \in Matches(frame, title) : r <= q) - 1

EmptyResult == [names |-> <<>>, posters |-> <<>>]

(* Mutant of OnException: the lists built so far are returned. *)
ReturnPartial(names, posters) == [names |-> names, posters |-> posters]

(* What the except clause of lines 79-81 returns. *)
OnException(names, posters) == EmptyResult

(* Lines 55-66: an exception (a missing column, None, no matrix row for   *)
(* the index) goes to the except clause of lines 79-81.                    *)
RecommendLookup ==
    /\ pc = "call"
    /\ IF movies.none \/ "title" \notin movies.cols
       THEN /\ raised' = TRUE
            /\ error' = "Recommend"
            /\ result' = OnException(recommended_movie_names,
                                     recommended_movie_posters)
            /\ pc' = "return"
            /\ UNCHANGED <<distances, k, recommended_movie_names,
                           recommended_movie_posters>>
       ELSE IF Matches(movies, movie) = {}
       THEN /\ result' = EmptyResult
            /\ pc' = "return"
            /\ UNCHANGED <<raised, error, distances, k,
                           recommended_movie_names, recommended_movie_posters>>
       ELSE IF similarity.none \/ FirstIndex(movies, movie) >= Len(similarity.m)
       THEN /\ raised' = TRUE
            /\ error' = "Recommend"
            /\ result' = OnException(recommended_movie_names,
                                     recommended_movie_posters)
            /\ pc' = "return"
            /\ UNCHANGED <<distances, k, recommended_movie_names,
                           recommended_movie_posters>>
       ELSE /\ distances' = SortedDesc(Enumerate(
                                similarity.m[FirstIndex(movies, movie) + 1]))
            /\ recommended_movie_names' = <<>>
            /\ recommended_movie_posters' = <<>>
            /\ k' = 0
            /\ pc' = "loop"
            /\ UNCHANGED <<raised, error, result>>
    /\ UNCHANGED <<disk, tmdb, cache, reads, hit, movies, similarity,
                   selected_movie, clicked, offered, movie, movie_id,
                   lookups, fetchLog>>

(* Lines 69-73 and 77: the loop head, the two row reads and the append of  *)
(* the title; or the return once the slice is used up.                     *)
LoopStep ==
    /\ pc = "loop"
    /\ IF k >= Len(TopSlice(distances))
       THEN /\ result' = [names |-> recommended_movie_names,
                          posters |-> recommended_movie_posters]
            /\ pc' = "return"
            /\ UNCHANGED <<raised, error, recommended_movie_names, movie_id>>
       ELSE LET i == TopSlice(distances)[k + 1]
            IN  IF i[1] >= Len(movies.rows) \/ "id" \notin movies.cols
                THEN /\ raised' = TRUE
                     /\ error' = "Recommend"
                     /\ result' = OnException(recommended_movie_names,
                                              recommended_movie_posters)
                     /\ pc' = "return"
                     /\ UNCHANGED <<recommended_movie_names, movie_id>>
                ELSE /\ recommended_movie_names' =
                          Append(recommended_movie_names,
                                 movies.rows[i[1] + 1].title)
                     /\ movie_id' = movies.rows[i[1] + 1].id
                     /\ pc' = "fetch"
                     /\ UNCHANGED <<raised, error, result>>
    /\ UNCHANGED <<disk, tmdb, cache, reads, hit, movies, similarity,
                   selected_movie, clicked, offered, movie, distances, k,
                   recommended_movie_posters, lookups, fetchLog>>

(* The response to the request fetch_poster makes; for a missing or zero   *)
(* id it returns before any request (line 31-32).                          *)
Unsent == Resp("unsent", 0, "none", "none", "")
Response(id) == IF id = NaN \/ id = 0 THEN Unsent ELSE tmdb[id]

(* Lines 74-75: the call of fetch_poster and the append of its result. *)
FetchPoster ==
    /\ pc = "fetch"
    /\ LET url == fetch_poster(movie_id, Response(movie_id))
       IN  /\ recommended_movie_posters' =
                 Append(recommended_movie_posters, url)
           /\ fetchLog' = Append(fetchLog,
                 [index |-> TopSlice(distances)[k + 1][1],
                  id |-> movie_id, resp |-> Response(movie_id), url |-> url])
    /\ k' = k + 1
    /\ pc' = "loop"
    /\ UNCHANGED <<disk, tmdb, cache, reads, hit, movies, similarity,
                   selected_movie, clicked, offered, error, movie, distances,
                   recommended_movie_names, movie_id, result, raised, lookups>>

-----------------------------------------------------------------------------
(* main, lines 127-146, and the reruns the widgets cause *)

Render ==
    /\ pc = "return"
    /\ pc' = "idle"
    /\ UNCHANGED <<disk, tmdb, cache, reads, hit, movies, similarity,
                   selected_movie, clicked, offered, error, lookups>>
    /\ UNCHANGED recVars

(* A rerun starts the script from the top: nothing of the last run's       *)
(* locals is kept, the widget values are.  Reruns come from the widgets    *)
(* the last run rendered, so a run that ended before the selectbox has     *)
(* none.                                                                   *)
Rerun(title, button) ==
    /\ pc = "idle"
    /\ reads < MaxReads
    /\ selected_movie' = title
    /\ clicked' = button
    /\ pc' = "run"
    /\ offered' = FALSE
    /\ error' = "none"
    /\ lookups' = 0
    /\ movie' = ""
    /\ distances' = <<>>
    /\ k' = 0
    /\ recommended_movie_names' = <<>>
    /\ recommended_movie_posters' = <<>>
    /\ movie_id' = 0
    /\ result' = EmptyResult
    /\ raised' = FALSE
    /\ fetchLog' = <<>>
    /\ movies' = NoneFrame
    /\ similarity' = NoneArray
    /\ UNCHANGED <<disk, tmdb, cache, reads, hit>>

Select == \E t \in TitleSet(movies) \ {selected_movie} : Rerun(t, FALSE)

Click == Rerun(selected_movie, TRUE)

-----------------------------------------------------------------------------
(* The session: a process started on some pair of files *)

Fresh ==
    /\ cache = <<>>
    /\ reads = 0
    /\ hit = FALSE
    /\ selected_movie = ""
    /\ clicked = FALSE
    /\ offered = FALSE
    /\ error = "none"
    /\ movie = ""
    /\ distances = <<>>
    /\ k = 0
    /\ recommended_movie_names = <<>>
    /\ recommended_movie_posters = <<>>
    /\ movie_id = 0
    /\ result = EmptyResult
    /\ raised = FALSE
    /\ lookups = 0
    /\ fetchLog = <<>>

RowsOf(file) == IF file.obj.none THEN 1 ELSE Len(file.obj.rows)

Init ==
    /\ \E f \in MovieFiles(SUBSET AllColumns) :
         \E g \in BadSimilarityFiles \cup SimilarityFiles(RowsOf(f)) :
            disk = [movie_list |-> f, similarity |-> g]
    /\ tmdb \in Services
    /\ pc = "run"
    /\ movies = NoneFrame
    /\ similarity = NoneArray
    /\ Fresh

Next ==
    \/ LoadData
    \/ CheckData
    \/ Button
    \/ RecommendLookup
    \/ LoopStep
    \/ FetchPoster
    \/ Render
    \/ Select
    \/ Click

Spec == Init /\ [][Next]_vars

(* recommend called directly, on any frame with both columns, any matrix   *)
(* and any title                                                           *)
RecInit ==
    /\ \E n \in 1..MaxRows, v \in Variants :
         /\ movies = Frame(AllColumns, Rows(n, v))
         /\ \E g \in SimilarityFiles(n) : similarity = g.obj
         /\ movie \in TitleSet(movies) \cup {Absent}
    /\ disk = [movie_list |-> File("ok", movies),
               similarity |-> File("ok", similarity)]
    /\ tmdb \in Services
    /\ pc = "call"
    /\ cache = <<>>
    /\ reads = 0
    /\ hit = FALSE
    /\ selected_movie = movie
    /\ clicked = TRUE
    /\ offered = FALSE
    /\ error = "none"
    /\ distances = <<>>
    /\ k = 0
    /\ recommended_movie_names = <<>>
    /\ recommended_movie_posters = <<>>
    /\ movie_id = 0
    /\ result = EmptyResult
    /\ raised = FALSE
    /\ lookups = 1
    /\ fetchLog = <<>>

RecNext == RecommendLookup \/ LoopStep \/ FetchPoster

RecSpec == RecInit /\ [][RecNext]_vars

-----------------------------------------------------------------------------
(* The claims.  Their vocabulary is defined here from the claims' words,   *)
(* apart from the operators that model the code.                           *)

Returned == pc \in {"return", "idle"} /\ lookups = 1
NRows == Len(movies.rows)
Present == \E r \in 1..NRows : movies.rows[r].title = movie
QueriedRow ==
    CHOOSE r \in 1..NRows :
        /\ movies.rows[r].title = movie
        /\ \A q \in 1..(r - 1) : movies.rows[q].title # movie
Square ==
    /\ Len(similarity.m) = NRows
    /\ \A i \in 1..NRows : Len(similarity.m[i]) = NRows
UniqueTitles ==
    \A r, q \in 1..NRows :
        movies.rows[r].title = movies.rows[q].title => r = q
HasVector == Present /\ QueriedRow <= Len(similarity.m)
Vector == similarity.m[QueriedRow]

(* Rank of entry j of a vector, from 0: the entries that come before it    *)
(* when ordered by score descending, equal scores in ascending row order.  *)
RankOf(vec, j) ==
    Cardinality({q \in 1..Len(vec) :
                    vec[q] > vec[j] \/ (vec[q] = vec[j] /\ q < j)})
RowAtRank(vec, r) == CHOOSE j \in 1..Len(vec) : RankOf(vec, j) = r
RankedTitles(vec) ==
    [r \in 1..Min(5, Len(vec) - 1) |-> movies.rows[RowAtRank(vec, r)].title]

(* C1: for a title that equals no row's title, recommend returns empty    *)
(* names and posters, fetches no poster and reports no error.              *)
C1_AbsentTitleEmpty ==
    (Returned /\ ~Present) =>
        /\ result = EmptyResult
        /\ fetchLog = <<>>
        /\ ~raised
        /\ error = "none"
C1_Witness == pc = "return" /\ movie = Absent /\ result = EmptyResult

(* C2: for a present title, N rows and an N x N matrix, recommend returns *)
(* exactly min(5, N - 1) entries.                                          *)
C2_ResultLength ==
    (Returned /\ Present /\ Square) =>
        /\ Len(result.names) = Min(5, NRows - 1)
        /\ Len(result.posters) = Min(5, NRows - 1)
C2_Witness ==
    /\ pc = "return" /\ Present /\ Square
    /\ NRows >= 7 /\ Len(result.names) = 5

(* C3: with unique titles and the queried row's self-similarity the        *)
(* maximum of its row, no returned entry is the queried movie.             *)
C3_NeverSelf ==
    (/\ Returned /\ Present /\ Square /\ UniqueTitles
     /\ \A j \in 1..NRows : Vector[QueriedRow] >= Vector[j])
    => \A n \in 1..Len(result.names) : result.names[n] # movie

(* C4: for a present title at row i, the entries returned are the rows at  *)
(* ranks 1 through 5 of row i's similarity vector (score descending, equal *)
(* scores in ascending row order), in rank order.                          *)
C4_RankOrder ==
    (Returned /\ HasVector) =>
        /\ \A r \in 1..Min(5, Len(Vector) - 1) : RowAtRank(Vector, r) <= NRows
        /\ result.names = RankedTitles(Vector)

(* The same on a square matrix, which is what the code does. *)
C4_RankOrderSquare ==
    (Returned /\ Present /\ Square) => result.names = RankedTitles(Vector)

(* C5: a pair whose matrix dimension differs from the table's row count,   *)
(* or whose table lacks title or id, is never accepted as a successful     *)
(* load: the session never goes on to offer the selector on it.            *)
C5_LoadValidates ==
    offered => (AllColumns \subseteq movies.cols /\ Square)

(* C6: with readable artifacts storage is read at most once, and every     *)
(* load call returns the pair that the first call read.                    *)
C6_LoadedOnce ==
    (disk.movie_list.kind = "ok" /\ disk.similarity.kind = "ok") =>
        /\ reads <= 1
        /\ pc \notin {"run", "idle"} =>
              /\ movies = disk.movie_list.obj
              /\ similarity = disk.similarity.obj
C6_Witness == hit /\ reads = 1 /\ pc = "check"

(* C7: every fetch_poster call returns a URL: the image host followed by   *)
(* the poster path exactly when a request was made and answered 200 with a *)
(* poster path, a placeholder in every other case.                         *)
GoodAnswer(e) ==
    /\ e.id # 0 /\ e.id # NaN
    /\ e.resp.exc = "none" /\ e.resp.status = 200
    /\ e.resp.json = "field" /\ e.resp.poster_path # ""
C7_PosterUrl ==
    \A n \in 1..Len(fetchLog) :
        LET e == fetchLog[n]
        IN  IF GoodAnswer(e)
            THEN e.url = [host |-> ImageHost, rest |-> e.resp.poster_path]
            ELSE e.url \in Placeholders
C7_Witness ==
    \E n, q \in 1..Len(fetchLog) :
        /\ GoodAnswer(fetchLog[n])
        /\ fetchLog[q].resp.exc = "Timeout" /\ fetchLog[q].id > 0

(* C8: when an artifact is missing or corrupt, or the table lacks the      *)
(* title or id column, the session stops at that point: the selector is    *)
(* never offered and recommend and fetch_poster are never called.          *)
FatalCondition ==
    \/ disk.movie_list.kind # "ok"
    \/ disk.similarity.kind # "ok"
    \/ /\ ~disk.movie_list.obj.none
       /\ ~(AllColumns \subseteq disk.movie_list.obj.cols)
C8_FatalStops ==
    FatalCondition =>
        /\ pc \in {"run", "check", "stopped"}
        /\ ~offered
        /\ lookups = 0
        /\ fetchLog = <<>>
C8_Witness ==
    /\ pc = "stopped" /\ error = "NoId"
    /\ disk.movie_list.kind = "ok" /\ disk.similarity.kind = "ok"

(* C9: a trigger with a selected title causes exactly one lookup and one   *)
(* poster fetch per returned item, in rank order, and no fetch for an item *)
(* that is not returned.                                                   *)
C9_FetchPerItem ==
    (pc = "idle" /\ clicked /\ selected_movie # "") =>
        /\ lookups = 1
        /\ Len(fetchLog) = Len(result.names)
        /\ \A n \in 1..Len(fetchLog) :
              movies.rows[fetchLog[n].index + 1].title = result.names[n]

(* C10: every return of recommend yields names and posters of equal        *)
(* length, posters[n] being the fetch_poster result for the id of the row  *)
(* whose title is names[n]; after an exception both are empty.             *)
C10_PairedLists ==
    Returned =>
        /\ Len(result.names) = Len(result.posters)
        /\ raised => result = EmptyResult
        /\ ~raised =>
              /\ Len(fetchLog) = Len(result.names)
              /\ \A n \in 1..Len(result.names) :
                    LET row == movies.rows[fetchLog[n].index + 1]
                    IN  /\ row.title = result.names[n]
                        /\ fetchLog[n].id = row.id
                        /\ result.posters[n] = fetchLog[n].url
C10_Witness == pc = "return" /\ raised /\ Len(fetchLog) >= 2

====
